---- MODULE Spec2Model ----
(***************************************************************************)
(* Model of src/database/vector_db.py: the VectorDatabase class (Qdrant    *)
(* client + sentence-transformer embedding model) and the get_vector_db    *)
(* singleton accessor.                                                     *)
(*                                                                         *)
(* Representation.  A Python str is a sequence of one-character strings,   *)
(* so that slicing (text[:100]), lower() and the substring test are the    *)
(* operations the code performs.  Python None is the value None below.  A  *)
(* metadata dict is a TLA+ function whose DOMAIN is its set of keys.       *)
(* Similarity scores are cosine similarities in hundredths (0.7 is 70):    *)
(* every embedding of the model is an integer vector of the same Euclidean *)
(* norm, so the cosine of two of them is exactly u.v / v.v.                *)
(***************************************************************************)
EXTENDS Integers, Sequences, FiniteSets, TLC

VARIABLES
    collection,     \* the Qdrant collection named collection_name: NoCollection or its VectorParams
    points,         \* the points of the collection: point id -> [vector, payload]
    vector_db,      \* the module global _vector_db: 0 (None) or the thread that built the instance
    pc,             \* per thread: its position inside get_vector_db / __init__ / _initialize
    seen,           \* per thread: the collection as client.get_collections() showed it to the thread
    got,            \* per thread: the instance its get_vector_db() call returned (0: none yet)
    calls,          \* per thread: counters of the boundary calls it made while initializing
    call,           \* the operation in progress or last finished on the shared instance
    points_before,  \* history: the points when the operation of `call` started
    now             \* the clock read by datetime.utcnow()

vars == <<collection, points, vector_db, pc, seen, got, calls, call,
          points_before, now>>

-----------------------------------------------------------------------------
(* Bounds of the model *)

\* longest texts / metadatas list handed to one upsert_documents call
MaxDocs == 2
\* last reading of the clock during ingestion: upsert_documents is called while
\* the clock can still show a later reading for each of its points
MaxClock == 4
\* largest top_k handed to search / hybrid_search
MaxTopK == 2
\* largest number of documents ingested before the searches start
MaxStored == 3
\* number of threads calling get_vector_db()
NumThreads == 2
\* output dimension of the embedding model (384 for all-MiniLM-L6-v2)
EmbeddingDim == 2

(* Program constants *)

\* text[:100] in _generate_chunk_id
IdPrefixLen == 100
\* batch_size: int = 100
DefaultBatchSize == 100
\* score_threshold: float = 0.7, in hundredths
DefaultScoreThreshold == 70

-----------------------------------------------------------------------------
(* Python values *)

None == <<"<None>">>

\* truth value of an Optional[str]: None and "" are falsy
Truthy(s) == s # None /\ s # <<>>

Min(a, b) == IF a < b THEN a ELSE b

\* s[:n]
Take(s, n) == SubSeq(s, 1, Min(n, Len(s)))

\* s[i:i+n] with a 0-based i
Slice(s, i, n) == SubSeq(s, i + 1, Min(i + n, Len(s)))

\* dict.get(key, default)
Get(d, key, default) == IF key \in DOMAIN d THEN d[key] ELSE default

UpperLetters ==
    <<"A", "B", "C", "D", "E", "F", "G", "H", "I", "J", "K", "L", "M",
      "N", "O", "P", "Q", "R", "S", "T", "U", "V", "W", "X", "Y", "Z">>

LowerLetters ==
    <<"a", "b", "c", "d", "e", "f", "g", "h", "i", "j", "k", "l", "m",
      "n", "o", "p", "q", "r", "s", "t", "u", "v", "w", "x", "y", "z">>

\* str.lower() of one character (ASCII): a capital letter gives its small letter
LowerChar(c) ==
    IF \E i \in 1..Len(UpperLetters) : UpperLetters[i] = c
    THEN LowerLetters[CHOOSE i \in 1..Len(UpperLetters) : UpperLetters[i] = c]
    ELSE c

\* str.lower()
Lower(s) == [i \in 1..Len(s) |-> LowerChar(s[i])]

\* k in t, for two str
IsSubstring(k, t) ==
    \E i \in 0..(Len(t) - Len(k)) : SubSeq(t, i + 1, i + Len(k)) = k

\* all lists over S of length at most n
ListsUpTo(S, n) == UNION {[1..k -> S] : k \in 0..n}

-----------------------------------------------------------------------------
(* The data the operations are exercised on *)

Str1(c) == <<c>>

\* one hundred characters: texts longer than the id prefix share it
LongPrefix == [i \in 1..IdPrefixLen |-> "a"]

TextRev == <<"R", "e", "v">>
TextLongX == LongPrefix \o <<"x">>
TextLongY == LongPrefix \o <<"Y">>

TickerA == Str1("A")
TickerB == Str1("B")
SectionS == Str1("S")
FY2023 == <<"2", "0", "2", "3">>

\* metadata dicts; MetaBare has neither ticker nor section
MetaBare == [chunk_index |-> Str1("0")]
MetaAS == [ticker |-> TickerA, section |-> SectionS]
MetaASFY == [ticker |-> TickerA, section |-> SectionS, fiscal_year |-> FY2023]
MetaA == [ticker |-> TickerA]
MetaBS == [ticker |-> TickerB, section |-> SectionS]

Doc(text, metadata) == [text |-> text, metadata |-> metadata]

\* (text, metadata) pairs handed to upsert_documents: two that differ after the id
\* prefix, two that differ in fiscal_year alone, one without ticker and section
Docs == {Doc(TextRev, MetaBare), Doc(TextLongX, MetaAS), Doc(TextLongX, MetaASFY),
         Doc(TextLongY, MetaASFY)}

\* the documents a searched collection is ingested from: five ids, two of them with
\* the same text (equal scores), over three tickers and two sections
CorpusDocs == {Doc(TextRev, MetaBare), Doc(TextLongX, MetaAS), Doc(TextLongY, MetaA),
               Doc(TextRev, MetaBS), Doc(TextLongY, MetaBS)}

Queries == {<<"r", "e", "v">>, <<"c", "a", "s", "h">>}
TickerArgs == {None, <<>>, TickerA, TickerB}
SectionArgs == {None, <<>>, SectionS}
ScoreThresholds == {0, DefaultScoreThreshold, 90}
KeywordLists == {<<>>, << <<"R", "E", "V">> >>, << <<"y">> >>, << <<"z", "z">>, <<"A">> >>}

TextsOf(docs) == [j \in 1..Len(docs) |-> docs[j].text]
MetadatasOf(docs) == [j \in 1..Len(docs) |-> docs[j].metadata]

\* the list without its last element (the list itself when empty)
DropLast(s) == IF Len(s) = 0 THEN s ELSE SubSeq(s, 1, Len(s) - 1)

\* the (texts, metadatas) arguments tried: equal lengths, or one list an element short
UpsertArgs ==
    UNION {{<<TextsOf(docs), MetadatasOf(docs)>>,
            <<DropLast(TextsOf(docs)), MetadatasOf(docs)>>,
            <<TextsOf(docs), DropLast(MetadatasOf(docs))>>} :
           docs \in ListsUpTo(Docs, MaxDocs)}

BatchSizes == {1, DefaultBatchSize}

\* tickers handed to delete_by_ticker: a stored one, the empty one that documents
\* without a ticker are stored under, and one no document has
DeleteTickers == {TickerA, <<>>, TickerB}

Threads == 1..NumThreads

-----------------------------------------------------------------------------
(* Embedding Provider: SentenceTransformer.encode *)

\* the first two components of the model's output for a text
BaseVector(text) ==
    CASE text = TextRev -> <<5, 0>>
      [] text = TextLongX -> <<4, 3>>
      [] text = TextLongY -> <<3, 4>>
      [] text = <<"r", "e", "v">> -> <<5, 0>>
      [] OTHER -> <<0, 5>>

\* self.embedding_model.encode(text): a vector of the model's dimension
encode(text) ==
    [i \in 1..EmbeddingDim |-> IF i <= 2 THEN BaseVector(text)[i] ELSE 0]

embed_text(text) == encode(text)

\* one vector per input, in input order
embed_batch(texts) == [i \in 1..Len(texts) |-> encode(texts[i])]

RECURSIVE DotFrom(_, _, _)
DotFrom(u, v, i) ==
    IF i > Len(u) \/ i > Len(v) THEN 0 ELSE u[i] * v[i] + DotFrom(u, v, i + 1)

Dot(u, v) == DotFrom(u, v, 1)

\* the largest r in lo..hi with r * r <= m
RECURSIVE FloorSqrtIn(_, _, _)
FloorSqrtIn(m, lo, hi) ==
    IF lo >= hi THEN lo
    ELSE LET mid == (lo + hi + 1) \div 2
         IN IF mid * mid <= m THEN FloorSqrtIn(m, mid, hi) ELSE FloorSqrtIn(m, lo, mid - 1)

\* d / sqrt(n) in whole hundredths, rounded down, for |d| <= sqrt(n)
Hundredths(d, n) ==
    IF d >= 0
    THEN FloorSqrtIn((10000 * d * d) \div n, 0, 100)
    ELSE LET m == (10000 * d * d + n - 1) \div n
             r == FloorSqrtIn(m, 0, 100)
         IN IF r * r = m THEN 0 - r ELSE 0 - (r + 1)

\* Distance.COSINE: (q . v) / (|q| * |v|), in hundredths; a vector of norm 0 has
\* no direction and scores 0
Score(q, v) ==
    IF Dot(q, q) = 0 \/ Dot(v, v) = 0 THEN 0
    ELSE Hundredths(Dot(q, v), Dot(q, q) * Dot(v, v))

-----------------------------------------------------------------------------
(* Chunk Identity *)

\* hashlib.md5(content.encode()).hexdigest(): a digest stands for its preimage
md5_hexdigest(content) == [md5 |-> content]

\* an id that also hashes the clock reading
generate_chunk_id_timestamped(text, metadata) ==
    md5_hexdigest(Get(metadata, "ticker", <<>>) \o <<"_">>
                  \o Get(metadata, "section", <<>>) \o <<"_">>
                  \o Take(text, IdPrefixLen) \o <<ToString(now)>>)

\* an id that hashes the whole text instead of its first IdPrefixLen characters
generate_chunk_id_full_text(text, metadata) ==
    md5_hexdigest(Get(metadata, "ticker", <<>>) \o <<"_">>
                  \o Get(metadata, "section", <<>>) \o <<"_">> \o text)

generate_chunk_id(text, metadata) ==
    md5_hexdigest(Get(metadata, "ticker", <<>>) \o <<"_">>
                  \o Get(metadata, "section", <<>>) \o <<"_">>
                  \o Take(text, IdPrefixLen))

-----------------------------------------------------------------------------
(* The vector store (Qdrant) *)

NoCollection == [exists |-> FALSE, size |-> 0, distance |-> "none"]

VectorParams(size, distance) == [exists |-> TRUE, size |-> size, distance |-> distance]

\* dimensions a collection made before this process started may have
CollectionSizes == {EmbeddingDim, EmbeddingDim + 1}

NoPoints == [id \in {} |-> id]

Ids(pts) == DOMAIN pts

Payload(text, metadata, created_at) ==
    [text |-> text,
     ticker |-> Get(metadata, "ticker", <<>>),
     section |-> Get(metadata, "section", <<>>),
     fiscal_year |-> Get(metadata, "fiscal_year", None),
     page |-> Get(metadata, "page", None),
     chunk_index |-> Get(metadata, "chunk_index", None),
     created_at |-> created_at]

PointStruct(id, vector, payload) == [id |-> id, vector |-> vector, payload |-> payload]

\* datetime.utcnow() read n times in a row when the last reading taken was `from`:
\* a reading is never earlier than the one before it and may be equal to it (a
\* coarse clock); the distinct readings are numbered in order, so each is the last
\* one or the next
ClockReadings(n, from) ==
    {r \in [1..n -> from..(from + n)] :
        \A j \in 1..n : r[j] - (IF j = 1 THEN from ELSE r[j - 1]) \in {0, 1}}

\* the clock after the readings
ClockAfter(readings, from) == IF readings = <<>> THEN from ELSE readings[Len(readings)]

\* the points list upsert_documents builds for one batch; created_at[j] is the
\* clock reading taken while point j is built
BatchPoints(batch_texts, embeddings, batch_metadatas, created_at) ==
    [j \in 1..Min(Min(Len(batch_texts), Len(created_at)),
                  Min(Len(embeddings), Len(batch_metadatas))) |->
        PointStruct(generate_chunk_id(batch_texts[j], batch_metadatas[j]),
                    embeddings[j],
                    Payload(batch_texts[j], batch_metadatas[j], created_at[j]))]

\* a store that takes vectors of any length
StoreAcceptsAnyLength(coll, pts) == coll.exists

\* the store refuses a batch holding a vector of another length than the collection's
StoreAccepts(coll, pts) ==
    coll.exists /\ \A j \in 1..Len(pts) : Len(pts[j].vector) = coll.size

\* client.upsert: each point replaces the point of the same id, in list order
RECURSIVE StoreUpsert(_, _, _)
StoreUpsert(stored, pts, j) ==
    IF j > Len(pts) THEN stored
    ELSE StoreUpsert((pts[j].id :> [vector |-> pts[j].vector, payload |-> pts[j].payload])
                        @@ stored, pts, j + 1)

\* a delete that drops the whole collection's points
StoreDeleteAll(stored, ticker) == [id \in {} |-> id]

\* client.delete with a must-match condition on the payload's ticker
StoreDeleteTicker(stored, ticker) ==
    [id \in {x \in DOMAIN stored : stored[x].payload.ticker # ticker} |-> stored[id]]

-----------------------------------------------------------------------------
(* The operation in progress on the VectorDatabase instance *)

NoCall ==
    [op |-> "none", status |-> "idle", error |-> "none",
     texts |-> <<>>, metadatas |-> <<>>, batch_size |-> 0,
     query |-> <<>>, keywords |-> <<>>, ticker |-> None, section |-> None,
     top_k |-> 0, score_threshold |-> 0,
     i |-> 0, total_upserted |-> 0, failed_batch |-> 0, created_at |-> <<>>,
     embed_calls |-> 0, upsert_calls |-> 0, search_calls |-> 0,
     limit |-> 0, threshold |-> 0, query_filter |-> [present |-> FALSE, must |-> <<>>],
     semantic_results |-> <<>>, result |-> <<>>, repeat |-> FALSE]

\* what the caller receives: nothing (the call raised or still runs) or the returned value
NoResult == <<>>
Returned(v) == <<v>>

\* the boundary calls of an initialization: model loads, get_collections, probe
\* encodes, create_collection
NoCalls == [load |-> 0, list |-> 0, probe |-> 0, create |-> 0]

\* the counters after one construction that found the collection
CallsAfterInit == [load |-> 1, list |-> 1, probe |-> 0, create |-> 0]

-----------------------------------------------------------------------------
(* Ingestion Pipeline: upsert_documents *)

\* a check that lets every pair of lists through
LengthsUnchecked(texts, metadatas) == TRUE

\* if len(texts) != len(metadatas): raise ValueError
LengthsMatch(texts, metadatas) == Len(texts) = Len(metadatas)

\* an except clause that logs the failed batch and goes on with the next one
LogAndContinue(c, error, batch_no) == [c EXCEPT !.i = @ + c.batch_size]

\* an except clause that hands the count so far back to the caller
ReturnPartialCount(c, error, batch_no) ==
    [c EXCEPT !.status = "returned", !.error = error, !.failed_batch = batch_no,
              !.result = Returned(c.total_upserted)]

\* except Exception as e: logger.error(...); raise
Raise(c, error, batch_no) ==
    [c EXCEPT !.status = "raised", !.error = error, !.failed_batch = batch_no]

\* entry: the length check, then the loop starts with total_upserted = 0; calls
\* are made while the clock has a reading left for each point
UpsertCall(texts, metadatas, batch_size) ==
    /\ call.status # "running"
    /\ now + Len(texts) <= MaxClock
    /\ points_before' = points
    /\ LET entered == [NoCall EXCEPT !.op = "upsert", !.texts = texts,
                          !.metadatas = metadatas, !.batch_size = batch_size,
                          !.repeat = /\ call.op = "upsert"
                                     /\ call.status = "returned"
                                     /\ call.texts = texts
                                     /\ call.metadatas = metadatas]
       IN call' = IF ~LengthsMatch(texts, metadatas)
                  THEN [entered EXCEPT !.status = "raised", !.error = "ValueError"]
                  ELSE [entered EXCEPT !.status = "running"]
    /\ UNCHANGED <<collection, points, vector_db, pc, seen, got, calls, now>>

\* one iteration of the loop over range(0, len(texts), batch_size): embed the
\* batch, build its points (one clock reading per point), hand them to the store
UpsertBatch(embed_ok, store_ok) ==
    /\ call.op = "upsert"
    /\ call.status = "running"
    /\ call.i < Len(call.texts)
    /\ LET batch_texts == Slice(call.texts, call.i, call.batch_size)
           batch_metadatas == Slice(call.metadatas, call.i, call.batch_size)
           embeddings == embed_batch(batch_texts)
           batch_no == (call.i \div call.batch_size) + 1
       IN IF ~embed_ok
          THEN /\ call' = Raise([call EXCEPT !.embed_calls = @ + 1], "embed", batch_no)
               /\ UNCHANGED <<points, now>>
          ELSE \E created_at \in ClockReadings(Len(batch_texts), now) :
               LET pts == BatchPoints(batch_texts, embeddings, batch_metadatas, created_at)
               IN /\ now' = ClockAfter(created_at, now)
                  /\ IF ~(store_ok /\ StoreAccepts(collection, pts))
                     THEN /\ call' = Raise([call EXCEPT !.embed_calls = @ + 1,
                                                        !.upsert_calls = @ + 1],
                                           "store", batch_no)
                          /\ UNCHANGED points
                     ELSE /\ points' = StoreUpsert(points, pts, 1)
                          /\ call' = [call EXCEPT !.i = @ + call.batch_size,
                                                  !.total_upserted = @ + Len(pts),
                                                  !.created_at = @ \o created_at,
                                                  !.embed_calls = @ + 1,
                                                  !.upsert_calls = @ + 1]
    /\ UNCHANGED <<collection, vector_db, pc, seen, got, calls, points_before>>

\* the loop is exhausted: return total_upserted
UpsertReturn ==
    /\ call.op = "upsert"
    /\ call.status = "running"
    /\ call.i >= Len(call.texts)
    /\ call' = [call EXCEPT !.status = "returned",
                                !.result = Returned(call.total_upserted)]
    /\ UNCHANGED <<collection, points, vector_db, pc, seen, got, calls, points_before, now>>

-----------------------------------------------------------------------------
(* Lifecycle/Admin: delete_by_ticker *)

delete_by_ticker(ticker, store_ok) ==
    /\ call.status # "running"
    /\ points_before' = points
    /\ IF store_ok /\ collection.exists
       THEN /\ points' = StoreDeleteTicker(points, ticker)
            /\ call' = [NoCall EXCEPT !.op = "delete", !.ticker = ticker,
                                      !.status = "returned", !.result = Returned(TRUE)]
       ELSE /\ UNCHANGED points
            /\ call' = [NoCall EXCEPT !.op = "delete", !.ticker = ticker,
                                      !.status = "returned", !.error = "store",
                                      !.result = Returned(FALSE)]
    /\ UNCHANGED <<collection, vector_db, pc, seen, got, calls, now>>

-----------------------------------------------------------------------------
(* Ingestion on a constructed instance *)

Init ==
    /\ collection \in {VectorParams(s, "Cosine") : s \in CollectionSizes}
    /\ points = NoPoints
    /\ vector_db = 1
    /\ pc = [t \in Threads |-> IF t = 1 THEN "done" ELSE "idle"]
    /\ seen = [t \in Threads |-> IF t = 1 THEN collection ELSE NoCollection]
    /\ got = [t \in Threads |-> IF t = 1 THEN 1 ELSE 0]
    /\ calls = [t \in Threads |-> IF t = 1 THEN CallsAfterInit ELSE NoCalls]
    /\ call = NoCall
    /\ points_before = NoPoints
    /\ now = 0

\* the caller has taken the result (or the exception) of the call and goes on
CallerContinues ==
    /\ call.op # "none"
    /\ call.status # "running"
    /\ call' = NoCall
    /\ UNCHANGED <<collection, points, vector_db, pc, seen, got, calls, points_before, now>>

\* the caller makes a fresh call, or makes the call that just returned once more
Next ==
    \/ /\ call.op = "none"
       /\ \E args \in UpsertArgs, batch_size \in BatchSizes :
             UpsertCall(args[1], args[2], batch_size)
    \/ /\ call.op = "upsert"
       /\ call.status = "returned"
       /\ \E batch_size \in BatchSizes : UpsertCall(call.texts, call.metadatas, batch_size)
    \/ \E embed_ok \in BOOLEAN, store_ok \in BOOLEAN : UpsertBatch(embed_ok, store_ok)
    \/ UpsertReturn
    \/ /\ call.op = "none"
       /\ \E ticker \in DeleteTickers, store_ok \in BOOLEAN :
             delete_by_ticker(ticker, store_ok)
    \/ CallerContinues

Spec == Init /\ [][Next]_vars

-----------------------------------------------------------------------------
(* The vector store (Qdrant): filtered similarity search *)

FieldCondition(key, value) == [key |-> key, value |-> value]

Filter(must) == [present |-> TRUE, must |-> must]

\* query_filter=None
NoFilter == [present |-> FALSE, must |-> <<>>]

\* a payload satisfies every must condition of the filter
Matches(payload, query_filter) ==
    \A j \in 1..Len(query_filter.must) :
        payload[query_filter.must[j].key] = query_filter.must[j].value

\* the ids the search may return: they pass the filter and reach the threshold
Hits(stored, query_vector, query_filter, score_threshold) ==
    {id \in DOMAIN stored :
        /\ Matches(stored[id].payload, query_filter)
        /\ Score(query_vector, stored[id].vector) >= score_threshold}

ScoredPoint(stored, query_vector, id) ==
    [id |-> id, score |-> Score(query_vector, stored[id].vector),
     payload |-> stored[id].payload]

\* client.search: the `limit` best hits by descending score; the order among equal
\* scores is the store's and is not fixed, so every such order is an outcome
StoreSearch(stored, query_vector, query_filter, limit, score_threshold) ==
    LET hits == Hits(stored, query_vector, query_filter, score_threshold)
        n == Min(limit, Cardinality(hits))
        score(id) == Score(query_vector, stored[id].vector)
        ranked == {r \in [1..n -> hits] :
                     /\ \A a, b \in 1..n : a < b => (r[a] # r[b] /\ score(r[a]) >= score(r[b]))
                     /\ \A h \in hits : (\A a \in 1..n : r[a] # h) =>
                                            \A a \in 1..n : score(r[a]) >= score(h)}
    IN {[a \in 1..n |-> ScoredPoint(stored, query_vector, r[a])] : r \in ranked}

-----------------------------------------------------------------------------
(* Retrieval Engine: search and hybrid_search *)

\* a filter that forgets the section
build_filter_ticker_only(ticker, section) ==
    IF Truthy(ticker) THEN Filter(<<FieldCondition("ticker", ticker)>>) ELSE NoFilter

\* if ticker: ... if section: ... Filter(must=filter_conditions) if filter_conditions else None
build_filter(ticker, section) ==
    LET filter_conditions ==
            (IF Truthy(ticker) THEN <<FieldCondition("ticker", ticker)>> ELSE <<>>)
            \o (IF Truthy(section) THEN <<FieldCondition("section", section)>> ELSE <<>>)
    IN IF filter_conditions # <<>> THEN Filter(filter_conditions) ELSE NoFilter

\* a request that leaves the threshold out
SearchRequestNoThreshold(query, ticker, section, top_k, score_threshold) ==
    [query_vector |-> embed_text(query), query_filter |-> build_filter(ticker, section),
     limit |-> top_k, score_threshold |-> -100]

\* the arguments search hands to client.search
SearchRequest(query, ticker, section, top_k, score_threshold) ==
    [query_vector |-> embed_text(query), query_filter |-> build_filter(ticker, section),
     limit |-> top_k, score_threshold |-> score_threshold]

\* the dict search makes of one ScoredPoint
FormatResult(r) ==
    [text |-> r.payload.text, score |-> r.score, ticker |-> r.payload.ticker,
     section |-> r.payload.section, fiscal_year |-> r.payload.fiscal_year,
     page |-> r.payload.page, chunk_index |-> r.payload.chunk_index]

FormatResults(results) == [j \in 1..Len(results) |-> FormatResult(results[j])]

\* the store answers a search whose query vector has the collection's dimension
SearchAccepted(coll, req) == coll.exists /\ Len(req.query_vector) = coll.size

\* every list search may return for a request the store answers
SearchResults(req) ==
    {FormatResults(r) : r \in StoreSearch(points, req.query_vector, req.query_filter,
                                          req.limit, req.score_threshold)}

search(query, ticker, section, top_k, score_threshold, embed_ok, store_ok) ==
    /\ call.status # "running"
    /\ points_before' = points
    /\ LET req == SearchRequest(query, ticker, section, top_k, score_threshold)
           entered == [NoCall EXCEPT !.op = "search", !.query = query, !.ticker = ticker,
                          !.section = section, !.top_k = top_k,
                          !.score_threshold = score_threshold, !.embed_calls = 1]
           asked == [entered EXCEPT !.search_calls = 1, !.limit = req.limit,
                        !.threshold = req.score_threshold,
                        !.query_filter = req.query_filter]
       IN IF ~embed_ok
          THEN call' = [entered EXCEPT !.status = "raised", !.error = "embed"]
          ELSE IF ~(store_ok /\ SearchAccepted(collection, req))
          THEN call' = [asked EXCEPT !.status = "raised", !.error = "store"]
          ELSE \E formatted_results \in SearchResults(req) :
                  call' = [asked EXCEPT !.status = "returned",
                              !.semantic_results = formatted_results,
                              !.result = Returned(formatted_results)]
    /\ UNCHANGED <<collection, points, vector_db, pc, seen, got, calls, now>>

\* a keyword test that keeps the case of both sides
KeywordHitCaseSensitive(text, keywords) ==
    \E j \in 1..Len(keywords) : IsSubstring(keywords[j], text)

\* any(keyword.lower() in text_lower for keyword in keywords)
KeywordHit(text, keywords) ==
    \E j \in 1..Len(keywords) : IsSubstring(Lower(keywords[j]), Lower(text))

\* the loop that keeps the results holding a keyword, in order
FilterByKeywords(results, keywords) ==
    SelectSeq(results, LAMBDA r : KeywordHit(r.text, keywords))

\* stage 1: self.search(query, ticker, section, top_k=top_k * 2), score_threshold defaulted
HybridRequest(query, ticker, section, top_k) ==
    SearchRequest(query, ticker, section, top_k * 2, DefaultScoreThreshold)

hybrid_search(query, keywords, ticker, section, top_k, embed_ok, store_ok) ==
    /\ call.status # "running"
    /\ points_before' = points
    /\ LET req == HybridRequest(query, ticker, section, top_k)
           entered == [NoCall EXCEPT !.op = "hybrid", !.query = query,
                          !.keywords = keywords, !.ticker = ticker,
                          !.section = section, !.top_k = top_k, !.embed_calls = 1]
           asked == [entered EXCEPT !.search_calls = 1, !.limit = req.limit,
                        !.threshold = req.score_threshold,
                        !.query_filter = req.query_filter]
       IN IF ~embed_ok
          THEN call' = [entered EXCEPT !.status = "raised", !.error = "embed"]
          ELSE IF ~(store_ok /\ SearchAccepted(collection, req))
          THEN call' = [asked EXCEPT !.status = "raised", !.error = "store"]
          ELSE \E semantic_results \in SearchResults(req) :
                  call' = [asked EXCEPT !.status = "returned",
                              !.semantic_results = semantic_results,
                              !.result = Returned(Take(FilterByKeywords(semantic_results,
                                                                        keywords), top_k))]
    /\ UNCHANGED <<collection, points, vector_db, pc, seen, got, calls, now>>

-----------------------------------------------------------------------------
(* Retrieval on a collection that was ingested earlier *)

\* the collection after one upsert_documents call on the documents, point j built
\* at clock reading created_at[j]
Ingested(docs, created_at) ==
    StoreUpsert(NoPoints,
                BatchPoints(TextsOf(docs), embed_batch(TextsOf(docs)), MetadatasOf(docs),
                            created_at),
                1)

\* the ingesting call found the clock later at every reading, as on a clock
\* finer than one turn of the loop
InitSearch ==
    /\ collection \in {VectorParams(s, "Cosine") : s \in CollectionSizes}
    /\ \E docs \in ListsUpTo(CorpusDocs, MaxStored) :
          /\ \A a, b \in 1..Len(docs) : a < b =>
                generate_chunk_id(docs[a].text, docs[a].metadata)
                    # generate_chunk_id(docs[b].text, docs[b].metadata)
          /\ \E created_at \in ClockReadings(Len(docs), 0) :
                /\ \A j \in 1..Len(docs) : created_at[j] = j
                /\ points = IF collection.size = EmbeddingDim
                            THEN Ingested(docs, created_at) ELSE NoPoints
                /\ now = ClockAfter(created_at, 0)
    /\ vector_db = 1
    /\ pc = [t \in Threads |-> IF t = 1 THEN "done" ELSE "idle"]
    /\ seen = [t \in Threads |-> IF t = 1 THEN collection ELSE NoCollection]
    /\ got = [t \in Threads |-> IF t = 1 THEN 1 ELSE 0]
    /\ calls = [t \in Threads |-> IF t = 1 THEN CallsAfterInit ELSE NoCalls]
    /\ call = NoCall
    /\ points_before = points

NextSearch ==
    \/ /\ call.op = "none"
       /\ \E query \in Queries, ticker \in TickerArgs, section \in SectionArgs,
             top_k \in 1..MaxTopK, score_threshold \in ScoreThresholds,
             embed_ok \in BOOLEAN, store_ok \in BOOLEAN :
             search(query, ticker, section, top_k, score_threshold, embed_ok, store_ok)
    \/ /\ call.op = "none"
       /\ \E query \in Queries, keywords \in KeywordLists, ticker \in TickerArgs,
             section \in SectionArgs, top_k \in 1..MaxTopK,
             embed_ok \in BOOLEAN, store_ok \in BOOLEAN :
             hybrid_search(query, keywords, ticker, section, top_k, embed_ok, store_ok)
    \/ CallerContinues

SpecSearch == InitSearch /\ [][NextSearch]_vars

-----------------------------------------------------------------------------
(* Collection Manager and the singleton: get_vector_db, __init__, _initialize,      *)
(* _create_collection_if_not_exists, run by several threads                         *)

\* the sentinel text of the probe
ProbeText == <<"t", "e", "s", "t">>

\* a creation that trusts a fixed dimension instead of the probe
CreateParamsFixed(test_embedding) == VectorParams(EmbeddingDim + 1, "Cosine")

\* VectorParams(size=len(test_embedding), distance=Distance.COSINE)
CreateParams(test_embedding) == VectorParams(Len(test_embedding), "Cosine")

\* a membership test that always sends the thread to create
NameListedNever(listed) == FALSE

\* self.collection_name in collection_names
NameListed(listed) == listed.exists

InitUnchanged == UNCHANGED <<points, call, points_before, now>>

\* get_vector_db: if _vector_db is None
GetVectorDb(t) ==
    /\ pc[t] = "idle"
    /\ pc' = [pc EXCEPT ![t] = IF vector_db = 0 THEN "construct" ELSE "return"]
    /\ UNCHANGED <<collection, vector_db, seen, got, calls>>
    /\ InitUnchanged

\* __init__ and the start of _initialize: QdrantClient(...), SentenceTransformer(...)
LoadModel(t, load_ok) ==
    /\ pc[t] = "construct"
    /\ calls' = [calls EXCEPT ![t].load = @ + 1]
    /\ pc' = [pc EXCEPT ![t] = IF load_ok THEN "list" ELSE "failed_load"]
    /\ UNCHANGED <<collection, vector_db, seen, got>>
    /\ InitUnchanged

\* collections = self.client.get_collections().collections, and the membership test
ListCollections(t, store_ok) ==
    /\ pc[t] = "list"
    /\ calls' = [calls EXCEPT ![t].list = @ + 1]
    /\ IF store_ok
       THEN /\ seen' = [seen EXCEPT ![t] = collection]
            /\ pc' = [pc EXCEPT ![t] = IF NameListed(collection) THEN "assign" ELSE "probe"]
       ELSE /\ pc' = [pc EXCEPT ![t] = "failed_list"]
            /\ UNCHANGED seen
    /\ UNCHANGED <<collection, vector_db, got>>
    /\ InitUnchanged

\* test_embedding = self.embedding_model.encode("test")
Probe(t, embed_ok) ==
    /\ pc[t] = "probe"
    /\ calls' = [calls EXCEPT ![t].probe = @ + 1]
    /\ pc' = [pc EXCEPT ![t] = IF embed_ok THEN "create" ELSE "failed_probe"]
    /\ UNCHANGED <<collection, vector_db, seen, got>>
    /\ InitUnchanged

\* self.client.create_collection(...): the store refuses a name that exists, and the
\* except clause logs and re-raises whatever the store raised
CreateCollection(t, store_ok) ==
    /\ pc[t] = "create"
    /\ calls' = [calls EXCEPT ![t].create = @ + 1]
    /\ IF ~store_ok
       THEN /\ pc' = [pc EXCEPT ![t] = "failed_create"]
            /\ UNCHANGED collection
       ELSE IF collection.exists
       THEN /\ pc' = [pc EXCEPT ![t] = "failed_conflict"]
            /\ UNCHANGED collection
       ELSE /\ collection' = CreateParams(encode(ProbeText))
            /\ pc' = [pc EXCEPT ![t] = "assign"]
    /\ UNCHANGED <<vector_db, seen, got>>
    /\ InitUnchanged

\* _vector_db = VectorDatabase()
Assign(t) ==
    /\ pc[t] = "assign"
    /\ vector_db' = t
    /\ pc' = [pc EXCEPT ![t] = "return"]
    /\ UNCHANGED <<collection, seen, got, calls>>
    /\ InitUnchanged

\* return _vector_db
Return(t) ==
    /\ pc[t] = "return"
    /\ got' = [got EXCEPT ![t] = vector_db]
    /\ pc' = [pc EXCEPT ![t] = "done"]
    /\ UNCHANGED <<collection, vector_db, seen, calls>>
    /\ InitUnchanged

\* get_vector_db().health_check() by a thread that holds the instance:
\* self.client.get_collections(), True, or False when the store raised
health_check(t, store_ok) ==
    /\ pc[t] = "done"
    /\ got[t] # 0
    /\ call' = [NoCall EXCEPT !.op = "health", !.status = "returned",
                              !.error = IF store_ok THEN "none" ELSE "store",
                              !.result = Returned(store_ok)]
    /\ UNCHANGED <<collection, points, vector_db, pc, seen, got, calls, points_before, now>>

InitThreads ==
    /\ collection \in {NoCollection} \cup {VectorParams(s, "Cosine") : s \in CollectionSizes}
    /\ points = NoPoints
    /\ vector_db = 0
    /\ pc = [t \in Threads |-> "idle"]
    /\ seen = [t \in Threads |-> NoCollection]
    /\ got = [t \in Threads |-> 0]
    /\ calls = [t \in Threads |-> NoCalls]
    /\ call = NoCall
    /\ points_before = NoPoints
    /\ now = 0

NextThreads ==
    \E t \in Threads :
        \/ GetVectorDb(t)
        \/ \E load_ok \in BOOLEAN : LoadModel(t, load_ok)
        \/ \E store_ok \in BOOLEAN : ListCollections(t, store_ok)
        \/ \E embed_ok \in BOOLEAN : Probe(t, embed_ok)
        \/ \E store_ok \in BOOLEAN : CreateCollection(t, store_ok)
        \/ Assign(t)
        \/ Return(t)
        \/ \E store_ok \in BOOLEAN : health_check(t, store_ok)

SpecInit == InitThreads /\ [][NextThreads]_vars

-----------------------------------------------------------------------------
(* Properties of ingestion, checked under Spec *)

\* the ids upsert_documents derives for its arguments
DerivedIds(texts, metadatas) ==
    {generate_chunk_id(texts[j], metadatas[j]) : j \in 1..Min(Len(texts), Len(metadatas))}

\* the store after the first n documents of a call were upserted onto `before`,
\* document j with the clock reading created_at[j]
PointsAfter(before, texts, metadatas, n, created_at) ==
    StoreUpsert(before,
                BatchPoints(Take(texts, n), embed_batch(Take(texts, n)),
                            Take(metadatas, n), created_at), 1)

\* a batch of the upsert in progress failed in the embedding model or in the store
BatchFailed == call.op = "upsert" /\ call.status = "raised" /\ call.error \in {"embed", "store"}

\* C1: an upsert_documents call that repeats the arguments of the call that just
\* returned, with nothing in between, leaves the set of stored ids and the record
\* count as they were after the first call, and every derived id is stored once.
C1_IdempotentIngestion ==
    (call.op = "upsert" /\ call.repeat) =>
        /\ Ids(points) = Ids(points_before)
        /\ Cardinality(Ids(points)) = Cardinality(Ids(points_before))
        /\ DerivedIds(call.texts, call.metadatas) \subseteq Ids(points)

\* the second of two identical calls has returned, having rewritten two documents
C1_Witness ==
    /\ call.op = "upsert" /\ call.repeat /\ call.status = "returned"
    /\ Len(call.texts) = 2
    /\ Cardinality(DerivedIds(call.texts, call.metadatas)) = 2
    /\ points # points_before

\* C2: with len(texts) # len(metadatas) the call raises the validation error having
\* made no embedding call and no store upsert, and the collection is as before.
C2_BatchValidation ==
    (call.op = "upsert" /\ Len(call.texts) # Len(call.metadatas)) =>
        /\ call.status = "raised"
        /\ call.error = "ValueError"
        /\ call.embed_calls = 0
        /\ call.upsert_calls = 0
        /\ call.result = NoResult
        /\ points = points_before

\* a call with two texts and one metadata dict was refused on a non-empty collection
C2_Witness ==
    /\ call.op = "upsert" /\ call.error = "ValueError"
    /\ Len(call.texts) = 2 /\ Len(call.metadatas) = 1
    /\ Ids(points) # {}

\* C3: the store always holds exactly the batches the loop has got through; when
\* batch k fails the call raises, batch k is the last one embedded and the last one
\* offered to the store, and batches 1..k-1 stay in the collection.
C3_FailFast ==
    (call.op = "upsert" /\ Len(call.texts) = Len(call.metadatas)) =>
        /\ points = PointsAfter(points_before, call.texts, call.metadatas,
                                Min(call.i, Len(call.texts)), call.created_at)
        /\ call.embed_calls <= (call.i \div call.batch_size) + 1
        /\ BatchFailed =>
            /\ call.i = (call.failed_batch - 1) * call.batch_size
            /\ call.embed_calls = call.failed_batch
            /\ call.upsert_calls =
                 IF call.error = "store" THEN call.failed_batch ELSE call.failed_batch - 1
            /\ call.result = NoResult
            /\ DerivedIds(Take(call.texts, call.i), Take(call.metadatas, call.i))
                 \subseteq Ids(points)

\* the second batch failed and the record of the first batch is in the collection
C3_Witness ==
    /\ BatchFailed
    /\ call.failed_batch = 2
    /\ Ids(points) # Ids(points_before)

\* C4 as claimed: when a batch fails the caller receives the count of the records
\* written by the batches before it.
C4_PartialCountReturned ==
    BatchFailed => call.result = Returned(call.total_upserted)

\* C4 amended: a count reaches the caller only when every batch was upserted, and it
\* is len(texts); when batch k fails the call raises, the caller receives nothing
\* and the count of batches 1..k-1 stays in the discarded local total_upserted.
C4_CountOnlyOnSuccess ==
    /\ call.op = "upsert" =>
        call.result = IF call.status = "returned" THEN Returned(Len(call.texts))
                      ELSE NoResult
    /\ (call.op = "upsert" /\ call.status = "returned") =>
        call.total_upserted = Len(call.texts)
    /\ BatchFailed =>
        call.total_upserted = Min((call.failed_batch - 1) * call.batch_size,
                                  Len(call.texts))

\* the second batch failed after one record was written, and nothing was returned
C4_Witness ==
    /\ BatchFailed
    /\ call.failed_batch = 2
    /\ call.total_upserted = 1
    /\ call.result = NoResult

-----------------------------------------------------------------------------
(* Properties of retrieval, checked under SpecSearch *)

\* the payload has the ticker and the section asked for; None and "" ask for nothing
PassesArguments(payload, ticker, section) ==
    /\ Truthy(ticker) => payload.ticker = ticker
    /\ Truthy(section) => payload.section = section

\* the stored ids that pass the arguments of `call` with a score of at least s
Eligible(s) ==
    {id \in DOMAIN points :
        /\ PassesArguments(points[id].payload, call.ticker, call.section)
        /\ Score(embed_text(call.query), points[id].vector) >= s}

\* text contains k when the case of the letters is ignored
ContainsIgnoringCase(text, k) ==
    \E off \in 0..(Len(text) - Len(k)) :
        \A j \in 1..Len(k) : LowerChar(text[off + j]) = LowerChar(k[j])

HasKeyword(text, keywords) ==
    \E n \in 1..Len(keywords) : ContainsIgnoringCase(text, keywords[n])

SearchReturned == call.op = "search" /\ call.status = "returned"
HybridReturned == call.op = "hybrid" /\ call.status = "returned"

\* C5 as claimed: stage 1 of hybrid_search asks for 2 * top_k candidates and applies
\* no score threshold, so every stored chunk that passes the ticker/section filter
\* and has fewer than 2 * top_k filter-passing chunks scoring above it is a candidate.
C5_NoScoreThreshold ==
    HybridReturned =>
        /\ call.limit = 2 * call.top_k
        /\ \A id \in Eligible(-100) :
              LET qv == embed_text(call.query)
                  better == {x \in Eligible(-100) :
                                Score(qv, points[x].vector) > Score(qv, points[id].vector)}
              IN Cardinality(better) < 2 * call.top_k =>
                    \E j \in 1..Len(call.semantic_results) :
                        call.semantic_results[j] = FormatResult(ScoredPoint(points, qv, id))

\* C6: the result of hybrid_search is the first top_k stage-1 candidates, in stage-1
\* order, whose text contains a keyword ignoring case; one search was made.
C6_HybridResult ==
    HybridReturned =>
        LET cands == call.semantic_results
            res == call.result[1]
            kept == {j \in 1..Len(cands) : HasKeyword(cands[j].text, call.keywords)}
        IN /\ Len(res) = Min(call.top_k, Cardinality(kept))
           /\ \A j \in 1..Len(res) :
                 \E m \in kept : /\ Cardinality({x \in kept : x < m}) = j - 1
                                 /\ res[j] = cands[m]
           /\ \A j \in 1..Len(res) : HasKeyword(res[j].text, call.keywords)
           /\ Len(res) <= call.top_k
           /\ call.search_calls = 1

\* the first candidate holds no keyword and is dropped, the second holds "A" in
\* lower case and is the only result, fewer than top_k
C6_Witness ==
    /\ HybridReturned
    /\ call.top_k = 2
    /\ call.keywords = << <<"z", "z">>, <<"A">> >>
    /\ Len(call.semantic_results) = 2
    /\ call.result = Returned(<<call.semantic_results[2]>>)

\* C7 as claimed: an argument that is given (not None) restricts the results to its
\* value.
C7_GivenArgumentRestricts ==
    SearchReturned =>
        \A j \in 1..Len(call.result[1]) :
            /\ call.ticker # None => call.result[1][j].ticker = call.ticker
            /\ call.section # None => call.result[1][j].section = call.section

\* C7 amended: an argument restricts the results to its value when it is a non-empty
\* string; None and "" restrict nothing, and with neither argument the store is
\* queried without a filter.
C7_FilterConjunction ==
    SearchReturned =>
        /\ \A j \in 1..Len(call.result[1]) :
              /\ Truthy(call.ticker) => call.result[1][j].ticker = call.ticker
              /\ Truthy(call.section) => call.result[1][j].section = call.section
        /\ (~Truthy(call.ticker) /\ ~Truthy(call.section)) => call.query_filter = NoFilter
        /\ (Truthy(call.ticker) \/ Truthy(call.section)) => call.query_filter.present
        /\ Len(call.result[1]) =
              Min(call.top_k, Cardinality(Eligible(call.score_threshold)))

\* ticker "A" and section "S" were asked for while the collection also holds a chunk
\* of ticker "A" in another section, and a result came back
C7_Witness ==
    /\ SearchReturned
    /\ call.ticker = TickerA /\ call.section = SectionS
    /\ \E id \in DOMAIN points :
          points[id].payload.ticker = TickerA /\ points[id].payload.section # SectionS
    /\ Len(call.result[1]) = 1

\* C8: search returns at most top_k results, none below the threshold; with no match
\* at or above the threshold it returns the empty list, and it raises only when the
\* embedding model or the store failed.
C8_ThresholdFiltering ==
    /\ SearchReturned =>
          /\ \A j \in 1..Len(call.result[1]) :
                call.result[1][j].score >= call.score_threshold
          /\ Len(call.result[1]) <= call.top_k
          /\ Eligible(call.score_threshold) = {} => call.result = Returned(<<>>)
    /\ (call.op = "search" /\ call.status = "raised") => call.error \in {"embed", "store"}

\* with threshold 0.9 and top_k 2 one result came back while another chunk that
\* passes the filter scores below the threshold
C8_Witness ==
    /\ SearchReturned
    /\ call.score_threshold = 90 /\ call.top_k = 2
    /\ Len(call.result[1]) = 1
    /\ Cardinality(Eligible(-100)) >= 2

-----------------------------------------------------------------------------
(* Properties of initialization, checked under SpecInit *)

\* the thread has read the list of collections and gone on
PastListing(t) ==
    pc[t] \in {"probe", "create", "assign", "return", "done",
               "failed_probe", "failed_create", "failed_conflict"} /\ calls[t].list = 1

\* the thread has come out of _create_collection_if_not_exists without an exception
Ensured(t) == PastListing(t) /\ pc[t] \in {"assign", "return", "done"}

\* C9: an initializer that finds the collection listed makes no probe and no create
\* call, and the collection stays as it was listed; one that finds it absent and
\* completes has made one probe and one create call, and the collection has the
\* dimension of the probe embedding and cosine distance.
C9_EnsureCollection ==
    \A t \in Threads :
        /\ (PastListing(t) /\ seen[t].exists) =>
              /\ calls[t].probe = 0
              /\ calls[t].create = 0
              /\ collection = seen[t]
              /\ Ensured(t)
        /\ (PastListing(t) /\ ~seen[t].exists) =>
              /\ calls[t].probe <= 1
              /\ calls[t].create <= 1
        /\ (Ensured(t) /\ ~seen[t].exists) =>
              /\ calls[t].probe = 1
              /\ calls[t].create = 1
              /\ collection = VectorParams(Len(encode(ProbeText)), "Cosine")

\* both paths in one behaviour: a thread found the collection absent and created
\* it, and another thread listed it afterwards and made no create call
C9_Witness ==
    \E t, u \in Threads :
        /\ Ensured(t) /\ ~seen[t].exists /\ calls[t].create = 1
        /\ Ensured(u) /\ seen[u].exists /\ calls[u].create = 0

\* C10 as claimed: an initializer whose creation the store rejects because the
\* collection now exists completes initialization; none ends in a fatal error for it.
C10_RaceIsBenign ==
    \A t \in Threads : pc[t] # "failed_conflict"

-----------------------------------------------------------------------------
(* Properties of deletion, checked under Spec *)

DeleteSucceeded == call.op = "delete" /\ call.result = Returned(TRUE)

\* every list a search restricted to the ticker may return now, whatever the query,
\* section, top_k and threshold
SearchesByTicker(ticker) ==
    UNION {SearchResults(SearchRequest(query, ticker, section, top_k, score_threshold)) :
           query \in Queries, section \in SectionArgs, top_k \in 1..MaxTopK,
           score_threshold \in ScoreThresholds}

\* C11 as claimed: right after a successful delete_by_ticker(t) every
\* search(..., ticker=t) returns the empty list.
C11_SearchAfterDeleteEmpty ==
    DeleteSucceeded => SearchesByTicker(call.ticker) = {<<>>}

\* C11 amended: delete_by_ticker(t) always returns a boolean; True with every record
\* of ticker t gone and every other record as it was, False with the collection as
\* it was; right after a successful delete of a non-empty t every search restricted
\* to t returns the empty list.
C11_DeleteByTicker ==
    call.op = "delete" =>
        /\ call.status = "returned"
        /\ call.result \in {Returned(TRUE), Returned(FALSE)}
        /\ call.result = Returned(FALSE) => points = points_before
        /\ DeleteSucceeded =>
              /\ Ids(points) \subseteq Ids(points_before)
              /\ \A id \in Ids(points_before) :
                    IF points_before[id].payload.ticker = call.ticker
                    THEN id \notin Ids(points)
                    ELSE id \in Ids(points) /\ points[id] = points_before[id]
              /\ Truthy(call.ticker) => SearchesByTicker(call.ticker) = {<<>>}

\* ticker "A" was deleted from a collection that held it and a record without ticker
C11_Witness ==
    /\ DeleteSucceeded
    /\ call.ticker = TickerA
    /\ \E id \in Ids(points_before) : points_before[id].payload.ticker = TickerA
    /\ Ids(points) # {}

-----------------------------------------------------------------------------
(* Properties of the vector dimension, checked under Spec *)

\* the collection was made with another dimension than the embedding model's output
DimensionDrift == collection.size # Len(encode(ProbeText))

\* C12: every stored vector has the length the collection was configured with; an
\* upsert of vectors of another length raises on its first batch with the store's
\* error and stores nothing.
C12_DimensionInvariant ==
    /\ \A id \in Ids(points) : Len(points[id].vector) = collection.size
    /\ (call.op = "upsert" /\ DimensionDrift /\ call.embed_calls >= 1
            /\ call.error # "embed") =>
          /\ call.status = "raised"
          /\ call.error = "store"
          /\ call.failed_batch = 1
          /\ call.upsert_calls = 1
          /\ call.total_upserted = 0
          /\ points = points_before
    /\ (call.op = "upsert" /\ call.upsert_calls >= 1 /\ ~DimensionDrift
            /\ call.total_upserted > 0) =>
          \A id \in DerivedIds(Take(call.texts, call.total_upserted),
                               Take(call.metadatas, call.total_upserted)) :
              id \in Ids(points) /\ Len(points[id].vector) = collection.size

\* two documents were offered to a collection of another dimension and refused
C12_Witness ==
    /\ call.op = "upsert" /\ DimensionDrift
    /\ Len(call.texts) = 2
    /\ call.status = "raised" /\ call.error = "store"
    /\ points = NoPoints

-----------------------------------------------------------------------------
(* Properties of the singleton and of the health probe, checked under SpecInit *)

\* the threads whose VectorDatabase() came back with an instance (model loaded,
\* collection ensured)
Constructors ==
    {t \in Threads : calls[t].load >= 1 /\ pc[t] \in {"assign", "return", "done"}}

\* C13 as claimed: at most one VectorDatabase is ever constructed (the model is
\* loaded once) and every get_vector_db() call that returns hands back that instance.
C13_Singleton ==
    /\ Cardinality(Constructors) <= 1
    /\ \A t, u \in Threads : (got[t] # 0 /\ got[u] # 0) => got[t] = got[u]

\* C14 as claimed: when get_vector_db().health_check() has given its result, no
\* thread of the process has loaded or run the embedding model, and no call to
\* get_vector_db() has ended in an exception.
C14_HealthProbeOnly ==
    call.op = "health" =>
        \A t \in Threads :
            /\ calls[t].load = 0
            /\ calls[t].probe = 0
            /\ pc[t] \notin {"failed_load", "failed_list", "failed_probe",
                             "failed_create", "failed_conflict"}

-----------------------------------------------------------------------------
(* Properties of the returned count and of id collisions, checked under Spec *)

\* what the id is said to depend on: ticker or "", section or "", text[:100]
IdKey(text, metadata) ==
    <<IF "ticker" \in DOMAIN metadata THEN metadata.ticker ELSE <<>>,
      IF "section" \in DOMAIN metadata THEN metadata.section ELSE <<>>,
      [j \in 1..(IF Len(text) < IdPrefixLen THEN Len(text) ELSE IdPrefixLen) |-> text[j]]>>

UpsertReturned == call.op = "upsert" /\ call.status = "returned"

\* C15: a successful call returns len(texts); inputs that agree on ticker, section
\* and the first 100 characters get one id, under which the last of them is stored,
\* so the collection gains no more records than the count returned.
C15_CountIsInputLength ==
    UpsertReturned =>
        LET n == Len(call.texts)
            id(j) == generate_chunk_id(call.texts[j], call.metadatas[j])
            key(j) == IdKey(call.texts[j], call.metadatas[j])
        IN /\ call.result = Returned(n)
           /\ \A a, b \in 1..n : key(a) = key(b) => id(a) = id(b)
           /\ \A a \in 1..n :
                 /\ id(a) \in Ids(points)
                 /\ \E b \in a..n :
                       /\ key(b) = key(a)
                       /\ \A c \in (b + 1)..n : key(c) # key(a)
                       /\ points[id(a)].payload =
                            Payload(call.texts[b], call.metadatas[b], call.created_at[b])
           /\ Cardinality(Ids(points) \ Ids(points_before)) <= n

\* two texts that differ only after the 100th character, with metadata that differs
\* only in fiscal_year, went into an empty collection: 2 was returned, 1 record is
\* stored and it is the later input
C15_Witness ==
    /\ UpsertReturned
    /\ points_before = NoPoints
    /\ call.texts = <<TextLongX, TextLongY>>
    /\ call.metadatas = <<MetaAS, MetaASFY>>
    /\ call.result = Returned(2)
    /\ Cardinality(Ids(points)) = 1
    /\ \A id \in Ids(points) : points[id].payload.text = TextLongY

====
